---------------------------- MODULE Spec2Model ----------------------------
(***************************************************************************)
(* Closed Knight's Tour solvers of onahprosper/DSA.                        *)
(*                                                                         *)
(*   src/knightsTourBacktracking.py  KnightsTourBacktracking (Warnsdorff   *)
(*                                   ordered depth-first search) and       *)
(*                                   KnightsTourLasVegas (random walk)     *)
(*   src/knights_tour.py             knights_tour (the same search, with   *)
(*                                   its own helpers)                      *)
(*                                                                         *)
(*   src/mst_kruskal_algorithm.py    kruskal_mst with its union-find       *)
(*                                                                         *)
(* One solver call is a run of small steps: the recursion of backtrack is  *)
(* an explicit stack of frames, one frame per activation, and every board  *)
(* write is a step of its own, so the board can be observed after each     *)
(* mark and each unmark.                                                   *)
(***************************************************************************)
EXTENDS Integers, Sequences, FiniteSets, TLC

\* src/knightsTourBacktracking.py:5 and src/knights_tour.py:12
BOARD_SIZE == 8

\* Board sizes of the builds explored.  BOARD_SIZE is a module constant of the
\* source; the small sizes are builds with that one line changed.  On them the
\* search fails by exhaustion, which on the standard board it never does
\* within any practical number of steps.
SmallBoards == {1, 2, 3, 4}
BoardSizes == SmallBoards \cup {BOARD_SIZE}

\* How far outside the board a start position may lie.
StartMargin == 1

\* In-bounds starts explored on boards that are not in SmallBoards: squares
\* from which the ordered search closes a tour within a few thousand marks.
StandardStarts == {<<0, 0>>, <<1, 1>>, <<3, 0>>, <<3, 3>>, <<4, 2>>}

\* Runs of several calls in one process: the number of calls, the boards and
\* the starts on the standard board.
MaxCalls == 3
RepeatBoards == {2, 3, BOARD_SIZE}
RepeatStandardStarts == {<<0, 0>>, <<1, 1>>, <<BOARD_SIZE, 0>>}

VARIABLES
    N,           \* BOARD_SIZE of this build
    pc,          \* "idle", "search", "walk", "done", "error"
    solver,      \* "none", "KnightsTourBacktracking", "knights_tour", "KnightsTourLasVegas"
    start,       \* startingPosition of the call
    board,       \* the call's board: a function on the cells
    stack,       \* activations of backtrack, the innermost last
    ret,         \* value backtrack returned to the code below it: "none", "true", "false"
    current,     \* Las Vegas: (current_row, current_col)
    move_count,  \* Las Vegas: move_count
    success,     \* first component of the returned pair
    writes,      \* number of board cell assignments made by the call
    entered,     \* number of backtrack activations / walk loop iterations begun
    draws,       \* indexes random.choice has returned during the call
    walk,        \* Las Vegas: the squares current has been, in order
    calls,       \* solver calls that have returned to the caller before this one
    first,       \* what the first call was given and what it returned
    helper,      \* the last direct call of a helper function and what it returned
    trace,       \* the board writes of a backtracking call, in order
    \* src/mst_kruskal_algorithm.py, one call of kruskal_mst
    edges,        \* argument: the list of (u, v, weight)
    vertices,     \* argument: the list of vertices
    sorted_edges, \* the edges by weight
    parent,       \* union-find: vertex -> parent
    rank,         \* union-find: vertex -> rank
    mst_edges,    \* edges accepted so far
    total_weight, \* their weight
    edge_index,   \* place of the for loop in sorted_edges
    mst_pc        \* "idle", "loop", "break", "done"

tour_vars == <<N, pc, solver, start, board, stack, ret, current, move_count,
               success, writes, entered, draws, walk, calls, first, helper, trace>>

mst_vars == <<edges, vertices, sorted_edges, parent, rank, mst_edges,
              total_weight, edge_index, mst_pc>>

vars == <<tour_vars, mst_vars>>

--------------------------------------------------------------------------
\* Positions and boards

Cells(n) == (0 .. n - 1) \X (0 .. n - 1)

\* src/knightsTourBacktracking.py:8-11, src/knights_tour.py:15-18
KNIGHT_MOVES ==
    << <<2, 1>>, <<1, 2>>, <<-1, 2>>, <<-2, 1>>,
       <<-2, -1>>, <<-1, -2>>, <<1, -2>>, <<2, -1>> >>

Plus(pos, d) == <<pos[1] + d[1], pos[2] + d[2]>>

\* (variant: one board object kept by the module and handed to every call)
shared_board(n) == board

create_empty_board(n) == [c \in Cells(n) |-> 0]

\* (variant: the upper bounds forgotten)
InBoundsLowerOnly(pos, n) == 0 <= pos[1] /\ 0 <= pos[2]

\* The start validation of the three entry points.
InBounds(pos, n) ==
    /\ 0 <= pos[1] /\ pos[1] < n
    /\ 0 <= pos[2] /\ pos[2] < n

\* board[row][col] = v with Python's index rules: an index in -n .. -1 counts
\* from the end, any other index outside 0 .. n-1 raises IndexError.
IndexOK(pos, n) == pos[1] \in -n .. n - 1 /\ pos[2] \in -n .. n - 1
Wrap(i, n) == IF i < 0 THEN i + n ELSE i
SetCell(b, pos, v, n) == [b EXCEPT ![<<Wrap(pos[1], n), Wrap(pos[2], n)>>] = v]

\* (variant: the square flagged as visited, the move number dropped)
MarkVisited(b, pos, m, n) == SetCell(b, pos, 1, n)

\* board[row][col] = move_count of backtrack
Mark(b, pos, m, n) == SetCell(b, pos, m, n)

\* (variant: the undo forgotten)
UnmarkNothing(b, pos, n) == b

\* board[row][col] = 0, the undo of a mark
Unmark(b, pos, n) == SetCell(b, pos, 0, n)

\* (variant: the occupancy test forgotten)
is_valid_move_on_board(pos, b, n) ==
    /\ 0 <= pos[1] /\ pos[1] < n
    /\ 0 <= pos[2] /\ pos[2] < n

is_valid_move(pos, b, n) ==
    /\ 0 <= pos[1] /\ pos[1] < n
    /\ 0 <= pos[2] /\ pos[2] < n
    /\ b[pos] = 0

\* (variant: the move table walked from its last entry to its first)
get_valid_moves_backwards(pos, b, n) ==
    LET cand == [k \in 1 .. Len(KNIGHT_MOVES) |->
                    Plus(pos, KNIGHT_MOVES[Len(KNIGHT_MOVES) + 1 - k])]
    IN  SelectSeq(cand, LAMBDA p : is_valid_move(p, b, n))

get_valid_moves(pos, b, n) ==
    LET cand == [k \in 1 .. Len(KNIGHT_MOVES) |-> Plus(pos, KNIGHT_MOVES[k])]
    IN  SelectSeq(cand, LAMBDA p : is_valid_move(p, b, n))

\* (variant: every full board taken as closed)
is_closed_tour_always(start_pos, current_pos) == TRUE

is_closed_tour(start_pos, current_pos) ==
    \E k \in 1 .. Len(KNIGHT_MOVES) : Plus(current_pos, KNIGHT_MOVES[k]) = start_pos

\* knights_tour.py's own helpers
is_valid(pos, b, n) ==
    /\ 0 <= pos[1] /\ pos[1] < n
    /\ 0 <= pos[2] /\ pos[2] < n
    /\ b[pos] = 0

\* (variant: the occupancy test forgotten in the count)
count_moves_on_board(pos, b, n) ==
    Cardinality({k \in 1 .. Len(KNIGHT_MOVES) :
                    InBounds(Plus(pos, KNIGHT_MOVES[k]), n)})

count_moves(pos, b, n) ==
    Cardinality({k \in 1 .. Len(KNIGHT_MOVES) : is_valid(Plus(pos, KNIGHT_MOVES[k]), b, n)})

can_return_to_start(current_pos, start_pos) ==
    \E k \in 1 .. Len(KNIGHT_MOVES) : Plus(current_pos, KNIGHT_MOVES[k]) = start_pos

kt_valid_moves(pos, b, n) ==
    LET cand == [k \in 1 .. Len(KNIGHT_MOVES) |-> Plus(pos, KNIGHT_MOVES[k])]
    IN  SelectSeq(cand, LAMBDA p : is_valid(p, b, n))

--------------------------------------------------------------------------
\* list.sort(key=...): ascending by key and stable, so an element's place in the
\* result is the number of elements with a smaller key, or with an equal key
\* and an earlier place in the list, plus one.
\* (variant: a sort that is not stable, equal keys come out in reverse)
SortByKeyUnstable(s, keys) ==
    LET place(ks, i) ==
            Cardinality({j \in 1 .. Len(ks) :
                            ks[j] < ks[i] \/ (ks[j] = ks[i] /\ j > i)}) + 1
        sorted(l, ks) == [r \in 1 .. Len(l) |-> l[CHOOSE i \in 1 .. Len(l) : place(ks, i) = r]]
    IN  CHOOSE out \in {sorted(l, ks) : l \in {s}, ks \in {keys}} : TRUE

SortByKey(s, keys) ==
    LET place(ks, i) ==
            Cardinality({j \in 1 .. Len(ks) :
                            ks[j] < ks[i] \/ (ks[j] = ks[i] /\ j < i)}) + 1
        \* list.sort evaluates the key of each element once, before it compares
        sorted(l, ks) == [r \in 1 .. Len(l) |-> l[CHOOSE i \in 1 .. Len(l) : place(ks, i) = r]]
    IN  CHOOSE out \in {sorted(l, ks) : l \in {s}, ks \in {keys}} : TRUE

\* (variant: the heuristic used as a cut, only the best candidate kept)
WarnsdorffBest(pos, b, n) ==
    LET valid_moves == get_valid_moves(pos, b, n)
        sorted == SortByKey(valid_moves,
                            [k \in 1 .. Len(valid_moves) |->
                                Len(get_valid_moves(valid_moves[k], b, n))])
    IN  IF sorted = <<>> THEN <<>> ELSE <<sorted[1]>>

\* Lines 162-168: valid_moves, then sorted by the number of onward moves.
WarnsdorffMoves(pos, b, n) ==
    LET valid_moves == get_valid_moves(pos, b, n)
    IN  SortByKey(valid_moves,
                  [k \in 1 .. Len(valid_moves) |->
                      Len(get_valid_moves(valid_moves[k], b, n))])

\* knights_tour.py lines 81-88
KtWarnsdorffMoves(pos, b, n) ==
    LET valid_moves == kt_valid_moves(pos, b, n)
    IN  SortByKey(valid_moves,
                  [k \in 1 .. Len(valid_moves) |->
                      count_moves(valid_moves[k], b, n)])

SortedMoves(sv, pos, b, n) ==
    IF sv = "knights_tour" THEN KtWarnsdorffMoves(pos, b, n)
    ELSE WarnsdorffMoves(pos, b, n)

Closes(sv, st, pos) ==
    IF sv = "knights_tour" THEN can_return_to_start(pos, st)
    ELSE is_closed_tour(st, pos)

--------------------------------------------------------------------------
\* Start positions a caller may pass

Starts(n) ==
    LET around == (-StartMargin .. n - 1 + StartMargin) \X (-StartMargin .. n - 1 + StartMargin)
    IN  IF n \in SmallBoards THEN around
        ELSE {p \in around : ~InBounds(p, n)} \cup StandardStarts

RepeatStarts(n) ==
    IF n \in SmallBoards THEN Starts(n) ELSE RepeatStandardStarts

\* Nothing has returned yet.
NoCall == [solver |-> "none"]

\* No helper function has been called directly.
NoHelper == [fn |-> "none"]

\* The writes are logged on the boards where runs of several calls are
\* explored; a search of a 4x4 board makes thousands of them.
TracedBoards == RepeatBoards
Log(t, pos, v) == IF N \in TracedBoards THEN Append(t, <<pos, v>>) ELSE t

\* An activation of backtrack: its arguments, its place in the code, its
\* locals, and the board as it was when the activation was entered.
Frame(pos, m, b) ==
    [pos |-> pos, move_count |-> m, at |-> "mark", valid_moves |-> <<>>, i |-> 1,
     entry |-> b]

Top == stack[Len(stack)]
Pop == SubSeq(stack, 1, Len(stack) - 1)
SetTop(f) == [stack EXCEPT ![Len(stack)] = f]

\* kruskal_mst has not been called and has no graph to be called with.
NoGraph ==
    /\ edges = <<>>
    /\ vertices = <<>>
    /\ sorted_edges = <<>>
    /\ parent = <<>>
    /\ rank = <<>>
    /\ mst_edges = <<>>
    /\ total_weight = 0
    /\ edge_index = 1
    /\ mst_pc = "idle"

\* No solver has been called: there are no locals and no result.
Idle ==
    /\ pc = "idle"
    /\ solver = "none"
    /\ start = <<0, 0>>
    /\ stack = <<>>
    /\ ret = "none"
    /\ current = <<0, 0>>
    /\ move_count = 0
    /\ success = FALSE
    /\ writes = 0
    /\ entered = 0
    /\ draws = <<>>
    /\ walk = <<>>
    /\ calls = 0
    /\ first = NoCall
    /\ helper = NoHelper
    /\ trace = <<>>

Init ==
    /\ N \in BoardSizes
    /\ board = [c \in Cells(N) |-> 0]
    /\ Idle
    /\ NoGraph

\* Lines 129-134 and 180 of knightsTourBacktracking.py, 60-64 and 100 of
\* knights_tour.py: a fresh board, the start validation, the first activation.
BacktrackingCall(sv, st) ==
    /\ pc = "idle"
    /\ solver' = sv
    /\ start' = st
    /\ board' = create_empty_board(N)
    /\ writes' = 0
    /\ entered' = 0
    /\ draws' = <<>>
    /\ ret' = "none"
    /\ IF ~InBounds(st, N)
       THEN /\ pc' = "done"
            /\ success' = FALSE
            /\ stack' = <<>>
       ELSE /\ pc' = "search"
            /\ success' = FALSE
            /\ stack' = <<Frame(st, 1, create_empty_board(N))>>
    /\ walk' = <<>>
    /\ trace' = <<>>
    /\ UNCHANGED <<mst_vars, N, helper, calls, first, current, move_count>>

KnightsTourBacktracking(st) == BacktrackingCall("KnightsTourBacktracking", st)

knights_tour(st) == BacktrackingCall("knights_tour", st)

\* Line 149: board[row][col] = move_count
BtMark ==
    /\ pc = "search" /\ ret = "none" /\ stack # <<>>
    /\ Top.at = "mark"
    /\ entered' = entered + 1
    /\ IF IndexOK(Top.pos, N)
       THEN /\ board' = Mark(board, Top.pos, Top.move_count, N)
            /\ writes' = writes + 1
            /\ trace' = Log(trace, Top.pos, Top.move_count)
            /\ stack' = SetTop([Top EXCEPT !.at = "check"])
            /\ pc' = pc
       ELSE /\ pc' = "error"
            /\ UNCHANGED <<board, writes, stack, trace>>
    /\ UNCHANGED <<mst_vars, N, helper, walk, calls, first, solver, start, ret, current, move_count, success, draws>>

\* Lines 152-159: the board is full.
BtComplete ==
    /\ pc = "search" /\ ret = "none" /\ stack # <<>>
    /\ Top.at = "check"
    /\ Top.move_count = N * N
    /\ IF Closes(solver, start, Top.pos)
       THEN /\ ret' = "true"
            /\ stack' = Pop
            /\ UNCHANGED <<board, writes, trace>>
       ELSE /\ board' = Unmark(board, Top.pos, N)
            /\ writes' = writes + 1
            /\ trace' = Log(trace, Top.pos, 0)
            /\ IF Len(stack) = 1
               THEN /\ ret' = "false"
                    /\ stack' = <<>>
               ELSE /\ ret' = "none"
                    /\ stack' = [Pop EXCEPT ![Len(stack) - 1].i = @ + 1]
    /\ UNCHANGED <<mst_vars, N, helper, walk, calls, first, pc, solver, start, current, move_count, success, entered, draws>>

\* Lines 162-168: the candidates, in Warnsdorff order.
BtExpand ==
    /\ pc = "search" /\ ret = "none" /\ stack # <<>>
    /\ Top.at = "check"
    /\ Top.move_count # N * N
    /\ stack' = SetTop([Top EXCEPT !.at = "loop",
                                   !.valid_moves = SortedMoves(solver, Top.pos, board, N),
                                   !.i = 1])
    /\ UNCHANGED <<mst_vars, N, helper, trace, walk, calls, first, pc, solver, start, board, ret, current, move_count,
                   success, writes, entered, draws>>

\* (variant: the callee given the caller's move count)
BtRecurseSameCount ==
    /\ pc = "search" /\ ret = "none" /\ stack # <<>>
    /\ Top.at = "loop"
    /\ Top.i <= Len(Top.valid_moves)
    /\ stack' = Append(stack, Frame(Top.valid_moves[Top.i], Top.move_count, board))
    /\ UNCHANGED <<mst_vars, N, helper, trace, walk, calls, first, pc, solver, start, board, ret, current, move_count,
                   success, writes, entered, draws>>

\* Lines 171-172: the call backtrack(next_row, next_col, move_count + 1).
BtRecurse ==
    /\ pc = "search" /\ ret = "none" /\ stack # <<>>
    /\ Top.at = "loop"
    /\ Top.i <= Len(Top.valid_moves)
    /\ stack' = Append(stack, Frame(Top.valid_moves[Top.i], Top.move_count + 1, board))
    /\ UNCHANGED <<mst_vars, N, helper, trace, walk, calls, first, pc, solver, start, board, ret, current, move_count,
                   success, writes, entered, draws>>

\* Lines 176-177: every candidate failed; unmark and return False.  The caller,
\* if there is one, goes on with its next candidate.
BtExhausted ==
    /\ pc = "search" /\ ret = "none" /\ stack # <<>>
    /\ Top.at = "loop"
    /\ Top.i > Len(Top.valid_moves)
    /\ board' = Unmark(board, Top.pos, N)
    /\ writes' = writes + 1
    /\ trace' = Log(trace, Top.pos, 0)
    /\ IF Len(stack) = 1
       THEN /\ ret' = "false"
            /\ stack' = <<>>
       ELSE /\ ret' = "none"
            /\ stack' = [Pop EXCEPT ![Len(stack) - 1].i = @ + 1]
    /\ UNCHANGED <<mst_vars, N, helper, walk, calls, first, pc, solver, start, current, move_count, success, entered, draws>>

\* Line 173: the callee returned True, so this activation returns True.
BtReturnTrue ==
    /\ pc = "search" /\ ret = "true" /\ stack # <<>>
    /\ stack' = Pop
    /\ UNCHANGED <<mst_vars, N, helper, trace, walk, calls, first, pc, solver, start, board, ret, current, move_count,
                   success, writes, entered, draws>>

\* Lines 180-181: success = backtrack(...); return success, board
BtFinish ==
    /\ pc = "search" /\ ret # "none" /\ stack = <<>>
    /\ success' = (ret = "true")
    /\ pc' = "done"
    /\ UNCHANGED <<mst_vars, N, helper, trace, walk, calls, first, solver, start, board, stack, ret, current, move_count,
                   writes, entered, draws>>

--------------------------------------------------------------------------
\* KnightsTourLasVegas

\* Index of the candidate with the fewest onward moves, the first such in table
\* order.
FewestOnward(valid_moves, b, n) ==
    CHOOSE i \in 1 .. Len(valid_moves) :
        \A j \in 1 .. Len(valid_moves) :
            LET ki == Len(get_valid_moves(valid_moves[i], b, n))
                kj == Len(get_valid_moves(valid_moves[j], b, n))
            IN  ki < kj \/ (ki = kj /\ i <= j)

\* The indexes random.choice(valid_moves) is taken to return.  On the small
\* boards: any of them.  On the standard board the walks are far too many to
\* enumerate, and one outcome per draw is followed.
ExploredDraws(valid_moves, b, n) ==
    IF n \in SmallBoards THEN 1 .. Len(valid_moves)
    ELSE {FewestOnward(valid_moves, b, n)}

\* Lines 206-217: a fresh board, the start validation, the start marked 1.
KnightsTourLasVegas(st) ==
    /\ pc = "idle"
    /\ solver' = "KnightsTourLasVegas"
    /\ start' = st
    /\ entered' = 0
    /\ draws' = <<>>
    /\ success' = FALSE
    /\ IF ~InBounds(st, N)
       THEN /\ pc' = "done"
            /\ board' = create_empty_board(N)
            /\ writes' = 0
            /\ walk' = <<>>
            /\ UNCHANGED <<current, move_count>>
       ELSE IF IndexOK(st, N)
       THEN /\ pc' = "walk"
            /\ current' = st
            /\ move_count' = 1
            /\ board' = SetCell(create_empty_board(N), st, 1, N)
            /\ writes' = 1
            /\ walk' = <<st>>
       ELSE /\ pc' = "error"
            /\ board' = create_empty_board(N)
            /\ writes' = 0
            /\ walk' = <<>>
            /\ UNCHANGED <<current, move_count>>
    /\ UNCHANGED <<mst_vars, N, helper, trace, calls, first, stack, ret>>

\* Lines 220-235, one iteration that moves: a candidate is drawn and marked.
LvMove ==
    /\ pc = "walk"
    /\ move_count < N * N
    /\ LET valid_moves == get_valid_moves(current, board, N)
       IN  /\ valid_moves # <<>>
           /\ \E i \in ExploredDraws(valid_moves, board, N) :
                 /\ draws' = Append(draws, i)
                 /\ move_count' = move_count + 1
                 /\ current' = valid_moves[i]
                 /\ board' = SetCell(board, valid_moves[i], move_count + 1, N)
                 /\ walk' = Append(walk, valid_moves[i])
    /\ writes' = writes + 1
    /\ entered' = entered + 1
    /\ UNCHANGED <<mst_vars, N, helper, trace, calls, first, pc, solver, start, stack, ret, success>>

\* (variant: the dead end undone as the backtracking solver undoes it)
LvStuckRollback ==
    /\ pc = "walk"
    /\ move_count < N * N
    /\ get_valid_moves(current, board, N) = <<>>
    /\ entered' = entered + 1
    /\ success' = FALSE
    /\ pc' = "done"
    /\ board' = Unmark(board, current, N)
    /\ UNCHANGED <<mst_vars, N, helper, trace, calls, first, solver, start, stack, ret, current, move_count,
                   writes, draws, walk>>

\* Lines 220-227, the iteration that finds no candidate: return False, board
LvStuck ==
    /\ pc = "walk"
    /\ move_count < N * N
    /\ get_valid_moves(current, board, N) = <<>>
    /\ entered' = entered + 1
    /\ success' = FALSE
    /\ pc' = "done"
    /\ UNCHANGED <<mst_vars, N, helper, trace, calls, first, solver, start, board, stack, ret, current, move_count,
                   writes, draws, walk>>

\* Lines 237-241: the loop has ended with every square visited.
LvFinish ==
    /\ pc = "walk"
    /\ ~(move_count < N * N)
    /\ success' = is_closed_tour(start, current)
    /\ pc' = "done"
    /\ UNCHANGED <<mst_vars, N, helper, trace, calls, first, solver, start, board, stack, ret, current, move_count,
                   writes, entered, draws, walk>>

Next ==
    \/ \E st \in Starts(N) : KnightsTourBacktracking(st)
    \/ \E st \in Starts(N) : knights_tour(st)
    \/ BtMark
    \/ BtComplete
    \/ BtExpand
    \/ BtRecurse
    \/ BtExhausted
    \/ BtReturnTrue
    \/ BtFinish
    \/ \E st \in Starts(N) : KnightsTourLasVegas(st)
    \/ LvMove
    \/ LvStuck
    \/ LvFinish

Spec == Init /\ [][Next]_vars

\* Every step of a call is a step of one sequential Python function: once
\* called, it keeps running.
\* The boards of the runs checked for termination.
TerminationBoards == {1, 2, 3, BOARD_SIZE}

InitFair == Init /\ N \in TerminationBoards

FairSpec == InitFair /\ [][Next]_vars /\ WF_vars(Next)

--------------------------------------------------------------------------
\* Several calls in one process, as run_performance_test and main make them
\* (lines 311-328, 349-387): the caller has the returned pair and calls again.
Again ==
    /\ pc = "done"
    /\ calls + 1 < MaxCalls
    /\ pc' = "idle"
    /\ calls' = calls + 1
    /\ first' = IF calls = 0
                THEN [solver |-> solver, start |-> start, success |-> success,
                      board |-> board, draws |-> draws, trace |-> trace]
                ELSE first
    \* the locals of the call that returned are gone
    /\ stack' = <<>>
    /\ ret' = "none"
    /\ current' = <<0, 0>>
    /\ move_count' = 0
    /\ writes' = 0
    /\ entered' = 0
    /\ draws' = <<>>
    /\ walk' = <<>>
    /\ trace' = <<>>
    /\ solver' = "none"
    /\ start' = <<0, 0>>
    /\ success' = FALSE
    \* the caller still holds the board it was returned
    /\ UNCHANGED <<mst_vars, N, helper, board>>

InitCalls == Init /\ N \in RepeatBoards

NextCalls ==
    \/ \E st \in RepeatStarts(N) : KnightsTourBacktracking(st)
    \/ \E st \in RepeatStarts(N) : knights_tour(st)
    \/ \E st \in RepeatStarts(N) : KnightsTourLasVegas(st)
    \/ BtMark
    \/ BtComplete
    \/ BtExpand
    \/ BtRecurse
    \/ BtExhausted
    \/ BtReturnTrue
    \/ BtFinish
    \/ LvMove
    \/ LvStuck
    \/ LvFinish
    \/ Again

SpecCalls == InitCalls /\ [][NextCalls]_vars

--------------------------------------------------------------------------
\* Vocabulary of the properties

BtSolvers == {"KnightsTourBacktracking", "knights_tour"}

Returned == pc = "done"

\* row and column both in 0 .. n-1
OnBoard(pos, n) == pos[1] \in 0 .. n - 1 /\ pos[2] \in 0 .. n - 1

AllZero(b) == \A c \in DOMAIN b : b[c] = 0

CellsHolding(b, v) == {c \in DOMAIN b : b[c] = v}

\* p and q differ by exactly one entry of the move table
KnightApart(p, q) ==
    Cardinality({k \in 1 .. Len(KNIGHT_MOVES) : Plus(p, KNIGHT_MOVES[k]) = q}) = 1

\* b holds 1 .. m, each once, on a knight path, and 0 elsewhere
IsPath(b, m) ==
    /\ \A v \in 1 .. m : Cardinality(CellsHolding(b, v)) = 1
    /\ \A c \in DOMAIN b : b[c] \in 0 .. m
    /\ \A v \in 1 .. m - 1 :
          \A p \in CellsHolding(b, v) : \A q \in CellsHolding(b, v + 1) : KnightApart(p, q)

\* every square visited, and the last one a knight move from the first
FullAndClosed(b, n) ==
    /\ \A c \in DOMAIN b : b[c] # 0
    /\ \E p \in CellsHolding(b, n * n) : \E q \in CellsHolding(b, 1) : KnightApart(p, q)

--------------------------------------------------------------------------
\* C1: whenever a backtracking solver returns success for an in-bounds start,
\* the returned board holds every integer of 1 .. N*N exactly once, the start
\* cell holds 1, and the cells holding k and k+1 differ by exactly one entry of
\* the move table.
C1_SuccessIsTour ==
    (Returned /\ solver \in BtSolvers /\ OnBoard(start, N) /\ success)
        => /\ IsPath(board, N * N)
           /\ board[start] = 1

C1_Witness ==
    /\ Returned /\ solver = "KnightsTourBacktracking" /\ success
    /\ N = BOARD_SIZE /\ start = <<3, 3>>

\* C2: for every solver and start, the returned success flag is true exactly
\* when the returned board has all N*N squares visited and the cell holding N*N
\* is a knight move from the cell holding 1; a full board that is not closed is
\* returned with success false.
C2_SuccessIffFullClosed ==
    Returned => (success <=> FullAndClosed(board, N))

\* a Las Vegas walk that visited every square of the standard board and closed
C2_Witness ==
    /\ Returned /\ solver = "KnightsTourLasVegas" /\ success
    /\ N = BOARD_SIZE /\ move_count = N * N

\* C3: for a start outside the board, every solver returns (False, all-zero
\* board) as an ordinary return value: no board cell written, no activation of
\* backtrack and no iteration of the walk loop begun, no error raised.
C3_OutOfBoundsStart ==
    (solver # "none" /\ pc # "idle" /\ ~OnBoard(start, N))
        => /\ pc = "done"
           /\ ~success
           /\ AllZero(board)
           /\ writes = 0
           /\ entered = 0
           /\ stack = <<>>

C3_Witness ==
    /\ Returned /\ N = BOARD_SIZE /\ start = <<BOARD_SIZE, 0>>
    /\ solver = "KnightsTourBacktracking" /\ ~success /\ AllZero(board)

\* C4: whenever a backtracking solver returns failure for an in-bounds start,
\* every cell of the returned board, the start cell included, is 0.
C4_FailureBoardIsZero ==
    (Returned /\ solver \in BtSolvers /\ OnBoard(start, N) /\ ~success)
        => AllZero(board)

\* an exhausted search that marked and unmarked many squares
C4_Witness ==
    /\ Returned /\ solver = "KnightsTourBacktracking" /\ ~success
    /\ N = 4 /\ start = <<1, 2>> /\ writes > 2 * N * N

--------------------------------------------------------------------------
\* Whether a closed tour from a square exists, decided without the solvers.

\* A closed tour of the standard board, as rows of move numbers.  A closed tour
\* is a cycle through every square, so it gives a closed tour from each square.
KnownClosedTour ==
    << << 1, 34,  3, 18, 49, 32, 13, 16>>,
       << 4, 19, 64, 33, 14, 17, 50, 31>>,
       <<63,  2, 35, 48, 55, 52, 15, 12>>,
       <<20,  5, 56, 53, 36, 47, 30, 51>>,
       <<41, 62, 37, 46, 57, 54, 11, 26>>,
       << 6, 21, 42, 61, 38, 27, 58, 29>>,
       <<43, 40, 23,  8, 45, 60, 25, 10>>,
       <<22,  7, 44, 39, 24,  9, 28, 59>> >>

GridBoard(g) == [c \in Cells(Len(g)) |-> g[c[1] + 1][c[2] + 1]]

IsClosedTourGrid(g) ==
    /\ IsPath(GridBoard(g), Len(g) * Len(g))
    /\ FullAndClosed(GridBoard(g), Len(g))

\* Plain exhaustive search over every knight path from st.
RECURSIVE SearchClosedTour(_, _, _, _, _)
SearchClosedTour(n, st, pos, visited, count) ==
    IF count = n * n THEN KnightApart(pos, st)
    ELSE \E k \in 1 .. Len(KNIGHT_MOVES) :
            LET q == Plus(pos, KNIGHT_MOVES[k])
            IN  /\ OnBoard(q, n)
                /\ q \notin visited
                /\ SearchClosedTour(n, st, q, visited \cup {q}, count + 1)

ExistsClosedTour(n, st) ==
    /\ OnBoard(st, n)
    /\ IF n = Len(KnownClosedTour)
       THEN IsClosedTourGrid(KnownClosedTour)
       ELSE SearchClosedTour(n, st, st, {st}, 1)

\* C5: the Warnsdorff order only orders the candidates: for an in-bounds start a
\* backtracking solver returns failure only if no closed tour from the start
\* exists on the board, and so returns success exactly when one exists.
C5_FailsOnlyIfNoTour ==
    (Returned /\ solver \in BtSolvers /\ OnBoard(start, N))
        => (success <=> ExistsClosedTour(N, start))

\* a tour found after the best-first choices had failed and been undone
C5_Witness ==
    /\ Returned /\ solver = "KnightsTourBacktracking" /\ success
    /\ N = BOARD_SIZE /\ start = <<0, 0>> /\ writes > N * N

--------------------------------------------------------------------------
\* C6: every call returns.  Backtracking: each activation has a move count one
\* larger than its caller's and at most N*N, so the recursion is at most N*N
\* deep, and the search never stops short of the return.  Las Vegas: the move
\* count grows on every iteration of the loop, which runs at most N*N - 1 times.
Running == pc \in {"search", "walk"}

C6_Depth ==
    pc = "search" =>
        /\ Len(stack) <= N * N
        /\ \A i \in 1 .. Len(stack) : stack[i].move_count = i

C6_Iterations ==
    solver = "KnightsTourLasVegas" => entered <= N * N - 1

\* C6: the recursion is bounded, the walk's move count grows, and every
\* running call reaches its return.
C6_Terminates ==
    /\ [] C6_Depth
    /\ [] C6_Iterations
    /\ [][(pc = "walk" /\ pc' = "walk") => move_count' = move_count + 1]_vars
    /\ [](pc # "error")
    /\ (Running ~> Returned)

\* a search that failed in some activations, went N*N deep and returned
C6_Witness ==
    /\ Returned /\ solver = "KnightsTourBacktracking"
    /\ N = BOARD_SIZE /\ start = <<0, 0>> /\ entered > N * N

--------------------------------------------------------------------------
\* C7: on the 8x8 board with start (0, 0) a backtracking solver returns, and
\* returns success with a board whose cell (0, 0) holds 1 and whose cell holding
\* 64 is a knight move from (0, 0).
CornerCall ==
    /\ N = BOARD_SIZE /\ BOARD_SIZE = 8
    /\ solver \in BtSolvers /\ start = <<0, 0>>

C7_CornerReturn ==
    (Returned /\ CornerCall)
        => /\ success
           /\ board[<<0, 0>>] = 1
           /\ \E p \in CellsHolding(board, 64) : KnightApart(p, <<0, 0>>)

\* C7: the corner call on the 8x8 board returns, with a closed tour.
C7_CornerTour ==
    /\ [] C7_CornerReturn
    /\ ((pc = "search" /\ CornerCall) ~> (Returned /\ CornerCall))

C7_Witness ==
    /\ Returned /\ CornerCall /\ solver = "knights_tour"
    /\ success /\ board[<<0, 0>>] = 1 /\ board[<<1, 2>>] = 64

--------------------------------------------------------------------------
\* Calls compared with the first call of the process

SameCallAsFirst ==
    /\ Returned /\ calls >= 1
    /\ first.solver = solver
    /\ first.start = start

SameResultAsFirst == first.success = success /\ first.board = board

\* C8: a backtracking solver keeps nothing between calls: a call with the start
\* of an earlier call, whatever was called in between, returns the same success
\* value and the same board cell for cell, and every call starts its search on
\* an empty board of its own.
C8_BacktrackingRepeats ==
    /\ (solver \in BtSolvers /\ SameCallAsFirst) => SameResultAsFirst
    /\ (pc = "search" /\ entered = 0) => AllZero(board)

\* the third call of the process finds the tour the first call found
C8_Witness ==
    /\ SameCallAsFirst /\ calls = 2 /\ solver = "KnightsTourBacktracking"
    /\ N = BOARD_SIZE /\ start = <<0, 0>> /\ success /\ SameResultAsFirst

--------------------------------------------------------------------------
\* C10: the Las Vegas solver never undoes a move.  With no candidate at a move
\* count below N*N it returns failure at once, and at every return from an
\* in-bounds start the board holds 1 .. k on the k squares of the walk, in the
\* order visited, and 0 on every other square.
Stuck ==
    /\ pc = "walk" /\ move_count < N * N
    /\ \A k \in 1 .. Len(KNIGHT_MOVES) :
          LET q == Plus(current, KNIGHT_MOVES[k])
          IN  OnBoard(q, N) => board[q] # 0

C10_BoardIsWalk ==
    (Returned /\ solver = "KnightsTourLasVegas" /\ OnBoard(start, N))
        => /\ Len(walk) = move_count
           /\ walk[1] = start
           /\ walk[Len(walk)] = current
           /\ \A j \in 1 .. Len(walk) : board[walk[j]] = j
           /\ \A c \in DOMAIN board : board[c] # 0 => \E j \in 1 .. Len(walk) : walk[j] = c
           /\ IsPath(board, move_count)

\* C10: the returned board is the walk, a stuck walk returns failure in its
\* next step with the board as it is, and no marked cell changes during a walk.
C10_NoRollback ==
    /\ [] C10_BoardIsWalk
    /\ [][Stuck => (pc' = "done" /\ ~success' /\ board' = board)]_vars
    /\ [][pc = "walk" => \A c \in DOMAIN board : board[c] # 0 => board'[c] = board[c]]_vars

\* a dead end on the 4x4 board, the squares walked so far kept
C10_Witness ==
    /\ Returned /\ solver = "KnightsTourLasVegas" /\ ~success
    /\ N = 4 /\ start = <<0, 0>>
    /\ move_count = 9 /\ board[current] = 9 /\ board[start] = 1

--------------------------------------------------------------------------
\* The helper functions called directly, as any caller of the module may call
\* them: on a board and a position of the caller's choice.  One call is
\* followed from each board.

\* Boards handed to a helper: on a small board any set of squares marked with
\* one move number, on the standard board the first m moves of a tour.
MaxMark == 2
HelperBoards == {1, 2, 3, BOARD_SIZE}

GivenBoards(n) ==
    IF n = Len(KnownClosedTour)
    THEN {[c \in Cells(n) |-> IF GridBoard(KnownClosedTour)[c] <= m
                              THEN GridBoard(KnownClosedTour)[c] ELSE 0] :
             m \in 0 .. n * n}
    ELSE {[c \in Cells(n) |-> IF c \in marked THEN v ELSE 0] :
             marked \in SUBSET Cells(n), v \in 1 .. MaxMark}

\* Positions handed to a helper: the board and HelperMargin squares around it.
HelperMargin == 2
HelperPositions(n) ==
    (-HelperMargin .. n - 1 + HelperMargin) \X (-HelperMargin .. n - 1 + HelperMargin)

\* knightsTourBacktracking.py: is_valid_move(pos, board)
IsValidMove ==
    /\ pc = "idle" /\ helper = NoHelper
    /\ \E pos \in HelperPositions(N) :
          helper' = [fn |-> "is_valid_move", pos |-> pos, board |-> board,
                        valid |-> is_valid_move(pos, board, N)]
    /\ UNCHANGED <<mst_vars, N, trace, pc, solver, start, board, stack, ret, current,
                   move_count, success, writes, entered, draws, walk, calls, first>>

\* knightsTourBacktracking.py: get_valid_moves(pos, board)
GetValidMoves ==
    /\ pc = "idle" /\ helper = NoHelper
    /\ \E pos \in HelperPositions(N) :
          helper' = [fn |-> "get_valid_moves", pos |-> pos, board |-> board,
                        moves |-> get_valid_moves(pos, board, N)]
    /\ UNCHANGED <<mst_vars, N, trace, pc, solver, start, board, stack, ret, current,
                   move_count, success, writes, entered, draws, walk, calls, first>>

\* knights_tour.py: is_valid(board, row, col)
IsValid ==
    /\ pc = "idle" /\ helper = NoHelper
    /\ \E pos \in HelperPositions(N) :
          helper' = [fn |-> "is_valid", pos |-> pos, board |-> board,
                        valid |-> is_valid(pos, board, N)]
    /\ UNCHANGED <<mst_vars, N, trace, pc, solver, start, board, stack, ret, current,
                   move_count, success, writes, entered, draws, walk, calls, first>>

\* knights_tour.py: count_moves(board, row, col)
CountMoves ==
    /\ pc = "idle" /\ helper = NoHelper
    /\ \E pos \in HelperPositions(N) :
          helper' = [fn |-> "count_moves", pos |-> pos, board |-> board,
                        count |-> count_moves(pos, board, N)]
    /\ UNCHANGED <<mst_vars, N, trace, pc, solver, start, board, stack, ret, current,
                   move_count, success, writes, entered, draws, walk, calls, first>>

InitHelpers ==
    /\ N \in HelperBoards
    /\ board \in GivenBoards(N)
    /\ Idle
    /\ NoGraph

NextHelpers ==
    \/ IsValidMove
    \/ GetValidMoves
    \/ IsValid
    \/ CountMoves

SpecHelpers == InitHelpers /\ [][NextHelpers]_vars

\* the entries of the move table that lead from pos to an empty square of b
LegalOffsets(pos, b, n) ==
    {k \in 1 .. Len(KNIGHT_MOVES) :
        /\ OnBoard(Plus(pos, KNIGHT_MOVES[k]), n)
        /\ b[Plus(pos, KNIGHT_MOVES[k])] = 0}

\* C11: for every position and board the move generator returns exactly the
\* squares pos + offset, over the 8 offsets of the move table, whose row and
\* column are in 0 .. N-1 and whose cell is 0, in the order of the table, and
\* leaves the board as it was; knights_tour.py's is_valid and count_moves test
\* and count the same squares.
C11_MovesInTableOrder ==
    /\ helper.fn # "none" => board = helper.board
    /\ helper.fn \in {"is_valid_move", "is_valid"} =>
          (helper.valid <=> (OnBoard(helper.pos, N) /\ board[helper.pos] = 0))
    /\ helper.fn = "get_valid_moves" =>
          LET legal == LegalOffsets(helper.pos, helper.board, N)
          IN  /\ Len(helper.moves) = Cardinality(legal)
              /\ \A k \in legal :
                    helper.moves[Cardinality({j \in legal : j <= k})]
                        = Plus(helper.pos, KNIGHT_MOVES[k])
    /\ helper.fn = "count_moves" =>
          helper.count = Cardinality(LegalOffsets(helper.pos, helper.board, N))

\* on the standard board, mid-tour: some targets off the board, some taken,
\* and several left
C11_Witness ==
    /\ helper.fn = "get_valid_moves" /\ N = BOARD_SIZE
    /\ Len(helper.moves) >= 2
    /\ \E k \in 1 .. Len(KNIGHT_MOVES) : ~OnBoard(Plus(helper.pos, KNIGHT_MOVES[k]), N)
    /\ \E k \in 1 .. Len(KNIGHT_MOVES) :
          /\ OnBoard(Plus(helper.pos, KNIGHT_MOVES[k]), N)
          /\ board[Plus(helper.pos, KNIGHT_MOVES[k])] # 0

--------------------------------------------------------------------------
\* The closed-tour checks called directly.  They take two positions and no
\* board; the caller's board is empty or has every square marked.
ClosesBoards(n) ==
    {b \in GivenBoards(n) : AllZero(b) \/ \A c \in DOMAIN b : b[c] # 0}

\* knightsTourBacktracking.py: is_closed_tour(start_pos, current_pos)
IsClosedTour ==
    /\ pc = "idle" /\ helper = NoHelper
    /\ \E start_pos \in HelperPositions(N) : \E current_pos \in HelperPositions(N) :
          helper' = [fn |-> "is_closed_tour", start |-> start_pos, current |-> current_pos,
                        board |-> board, closes |-> is_closed_tour(start_pos, current_pos)]
    /\ UNCHANGED <<mst_vars, N, trace, pc, solver, start, board, stack, ret, current,
                   move_count, success, writes, entered, draws, walk, calls, first>>

\* knights_tour.py: can_return_to_start(current_pos, start_pos)
CanReturnToStart ==
    /\ pc = "idle" /\ helper = NoHelper
    /\ \E current_pos \in HelperPositions(N) : \E start_pos \in HelperPositions(N) :
          helper' = [fn |-> "can_return_to_start", start |-> start_pos, current |-> current_pos,
                        board |-> board, closes |-> can_return_to_start(current_pos, start_pos)]
    /\ UNCHANGED <<mst_vars, N, trace, pc, solver, start, board, stack, ret, current,
                   move_count, success, writes, entered, draws, walk, calls, first>>

InitCloses ==
    /\ N \in HelperBoards
    /\ board \in ClosesBoards(N)
    /\ Idle
    /\ NoGraph

NextCloses ==
    \/ IsClosedTour
    \/ CanReturnToStart

SpecCloses == InitCloses /\ [][NextCloses]_vars

\* one position is two rows and one column, or one row and two columns, away
\* from the other
LShaped(p, q) ==
    LET dr == IF p[1] >= q[1] THEN p[1] - q[1] ELSE q[1] - p[1]
        dc == IF p[2] >= q[2] THEN p[2] - q[2] ELSE q[2] - p[2]
    IN  (dr = 1 /\ dc = 2) \/ (dr = 2 /\ dc = 1)

\* C12: the closed-tour check is true exactly when start = current + offset for
\* some entry of the move table.  It is decided by the two positions only,
\* whatever the board holds (the start square is occupied on a full board):
\* closes((0,0),(1,2)) is true and closes((0,0),(0,1)) is false.
C12_ClosesIffKnightMove ==
    helper.fn \in {"is_closed_tour", "can_return_to_start"} =>
        /\ helper.closes <=>
              (\E k \in 1 .. Len(KNIGHT_MOVES) :
                  helper.start = <<helper.current[1] + KNIGHT_MOVES[k][1],
                                   helper.current[2] + KNIGHT_MOVES[k][2]>>)
        /\ helper.closes <=> LShaped(helper.start, helper.current)
        /\ (helper.start = <<0, 0>> /\ helper.current = <<1, 2>>) => helper.closes
        /\ (helper.start = <<0, 0>> /\ helper.current = <<0, 1>>) => ~helper.closes
        /\ board = helper.board

\* the last square of a full standard board, a knight move from the occupied
\* start square
C12_Witness ==
    /\ helper.fn = "is_closed_tour" /\ N = BOARD_SIZE
    /\ helper.start = <<0, 0>> /\ helper.current = <<1, 2>> /\ helper.closes
    /\ board[<<0, 0>>] = 1 /\ board[<<1, 2>>] = N * N

--------------------------------------------------------------------------
\* src/mst_kruskal_algorithm.py: Kruskal's minimum spanning tree

\* Lines 6-11.  The loop halves the path as it climbs; the caller's dictionary
\* is changed, so the changed dictionary is returned with the root.
RECURSIVE find_parent(_, _)
find_parent(p, vertex) ==
    IF p[vertex] = vertex THEN [root |-> vertex, parent |-> p]
    ELSE LET halved == [p EXCEPT ![vertex] = p[p[vertex]]]
         IN  find_parent(halved, halved[vertex])

\* (variant: the vertices linked, not their roots)
union_vertices(p, r, vertex1, vertex2) ==
    [parent |-> [p EXCEPT ![vertex2] = vertex1], rank |-> r]

\* Lines 14-25: union by rank
union(p, r, vertex1, vertex2) ==
    LET f1 == find_parent(p, vertex1)
        f2 == find_parent(f1.parent, vertex2)
        root1 == f1.root
        root2 == f2.root
    IN  IF r[root1] < r[root2]
        THEN [parent |-> [f2.parent EXCEPT ![root1] = root2], rank |-> r]
        ELSE IF r[root1] > r[root2]
        THEN [parent |-> [f2.parent EXCEPT ![root2] = root1], rank |-> r]
        ELSE [parent |-> [f2.parent EXCEPT ![root2] = root1],
              rank |-> [r EXCEPT ![root1] = r[root1] + 1]]

\* Graphs handed to kruskal_mst
VertexNames == <<"A", "B", "C", "D", "E", "F", "G", "H", "I">>
GraphSizes == {1, 2, 3, 4}
MaxWeight == 2
\* On one or two vertices any list of up to MaxEdges edges is handed over, on
\* more vertices the simple graphs.
MultigraphSizes == {1, 2}
MaxEdges == 3

Range(s) == {s[i] : i \in DOMAIN s}
Reverse(s) == [i \in 1 .. Len(s) |-> s[Len(s) + 1 - i]]
VerticesOf(n) == SubSeq(VertexNames, 1, n)

\* Any list of up to MaxEdges edges: loops, parallel edges, either direction,
\* any order.
AnyEdgeLists(n) ==
    LET triples == Range(VerticesOf(n)) \X Range(VerticesOf(n)) \X (1 .. MaxWeight)
    IN  UNION {[1 .. k -> triples] : k \in 0 .. MaxEdges}

\* Simple graphs on n vertices: each pair of vertices absent (0) or present
\* with a weight, listed by endpoints, forwards or backwards.
SimpleEdgeLists(n) ==
    LET pairs == {<<i, j>> \in (1 .. n) \X (1 .. n) : i < j}
        listed(wt) ==
            SelectSeq([k \in 1 .. n * n |->
                          <<VertexNames[((k - 1) \div n) + 1],
                            VertexNames[((k - 1) % n) + 1],
                            IF <<((k - 1) \div n) + 1, ((k - 1) % n) + 1>> \in pairs
                            THEN wt[<<((k - 1) \div n) + 1, ((k - 1) % n) + 1>>]
                            ELSE 0>>],
                      LAMBDA e : e[3] # 0)
    IN  UNION {{listed(wt), Reverse(listed(wt))} : wt \in [pairs -> 0 .. MaxWeight]}

\* first_example, second_example and third_example (lines 130-226)
ExampleGraphs ==
    { [vertices |-> VerticesOf(9),
       edges |-> << <<"A", "B", 4>>, <<"A", "H", 8>>, <<"B", "C", 8>>, <<"B", "H", 11>>,
                    <<"C", "D", 7>>, <<"C", "I", 2>>, <<"C", "F", 4>>, <<"D", "E", 9>>,
                    <<"D", "F", 14>>, <<"E", "F", 10>>, <<"F", "G", 2>>, <<"G", "H", 1>>,
                    <<"G", "I", 6>>, <<"H", "I", 7>> >>],
      [vertices |-> VerticesOf(6),
       edges |-> << <<"A", "B", 12>>, <<"A", "C", 8>>, <<"A", "D", 15>>, <<"B", "C", 10>>,
                    <<"B", "E", 20>>, <<"C", "D", 7>>, <<"C", "E", 14>>, <<"D", "F", 9>>,
                    <<"E", "F", 11>> >>],
      [vertices |-> VerticesOf(7),
       edges |-> << <<"A", "B", 3>>, <<"A", "C", 5>>, <<"A", "D", 4>>, <<"B", "C", 2>>,
                    <<"B", "E", 6>>, <<"C", "D", 3>>, <<"C", "E", 4>>, <<"C", "F", 5>>,
                    <<"D", "F", 7>>, <<"E", "F", 2>>, <<"E", "G", 8>>, <<"F", "G", 3>> >>] }

EdgeLists(n) ==
    IF n \in MultigraphSizes THEN AnyEdgeLists(n) ELSE SimpleEdgeLists(n)

\* Lines 28-49: the call with its arguments, the edges sorted by weight, every
\* vertex its own set.
kruskal_mst(es, vs) ==
    /\ mst_pc = "idle"
    /\ edges' = es
    /\ vertices' = vs
    /\ sorted_edges' = SortByKey(es, [k \in 1 .. Len(es) |-> es[k][3]])
    /\ parent' = [v \in Range(vs) |-> v]
    /\ rank' = [v \in Range(vs) |-> 0]
    /\ mst_edges' = <<>>
    /\ total_weight' = 0
    /\ edge_index' = 1
    /\ mst_pc' = "loop"
    /\ UNCHANGED tour_vars

\* first_example, second_example, third_example: the calls main makes
KruskalExample ==
    /\ mst_pc = "idle"
    /\ \E g \in ExampleGraphs : kruskal_mst(g.edges, g.vertices)

\* a call with any graph of the sizes explored
KruskalCall ==
    /\ mst_pc = "idle"
    /\ \E n \in GraphSizes : \E es \in EdgeLists(n) : kruskal_mst(es, VerticesOf(n))

\* Lines 51-63: one iteration of the for loop
KruskalStep ==
    /\ mst_pc = "loop"
    /\ edge_index <= Len(sorted_edges)
    /\ LET u == sorted_edges[edge_index][1]
           v == sorted_edges[edge_index][2]
           weight == sorted_edges[edge_index][3]
           fu == find_parent(parent, u)
           fv == find_parent(fu.parent, v)
       IN  IF fu.root # fv.root
           THEN LET joined == union(fv.parent, rank, u, v)
                IN  /\ mst_edges' = Append(mst_edges, <<u, v, weight>>)
                    /\ total_weight' = total_weight + weight
                    /\ parent' = joined.parent
                    /\ rank' = joined.rank
                    /\ IF Len(mst_edges) + 1 = Len(vertices) - 1
                       THEN mst_pc' = "break" /\ edge_index' = edge_index
                       ELSE mst_pc' = "loop" /\ edge_index' = edge_index + 1
           ELSE /\ parent' = fv.parent
                /\ edge_index' = edge_index + 1
                /\ UNCHANGED <<rank, mst_edges, total_weight, mst_pc>>
    /\ UNCHANGED <<tour_vars, edges, vertices, sorted_edges>>

\* Line 65, after the break or after the last edge
KruskalReturn ==
    /\ \/ mst_pc = "break"
       \/ mst_pc = "loop" /\ edge_index > Len(sorted_edges)
    /\ mst_pc' = "done"
    /\ UNCHANGED <<tour_vars, edges, vertices, sorted_edges, parent, rank,
                   mst_edges, total_weight, edge_index>>

InitKruskal ==
    /\ N = BOARD_SIZE
    /\ board = [c \in Cells(N) |-> 0]
    /\ Idle
    /\ NoGraph

NextKruskal ==
    \/ KruskalExample
    \/ KruskalCall
    \/ KruskalStep
    \/ KruskalReturn

SpecKruskal == InitKruskal /\ [][NextKruskal]_vars

\* Graph vocabulary of the properties.  A graph is a set V of vertices and a
\* list E of edges, of which the places in S are taken.

\* the vertices joined to a vertex of W by the edges at the places in S
RECURSIVE Reach(_, _, _)
Reach(W, E, S) ==
    LET more == W \cup {E[i][2] : i \in {j \in S : E[j][1] \in W}}
                  \cup {E[i][1] : i \in {j \in S : E[j][2] \in W}}
    IN  IF more = W THEN W ELSE Reach(more, E, S)

Connects(V, E, S) == V # {} /\ \A v \in V : Reach({v}, E, S) = V

Components(V, E, S) == {Reach({v}, E, S) : v \in V}

\* no cycle: every edge joins two components
Forest(V, E, S) == Cardinality(S) = Cardinality(V) - Cardinality(Components(V, E, S))

RECURSIVE Weight(_, _)
Weight(E, S) ==
    IF S = {} THEN 0
    ELSE LET i == CHOOSE j \in S : TRUE
         IN  E[i][3] + Weight(E, S \ {i})

SpanningTrees(V, E) ==
    {S \in SUBSET DOMAIN E : Cardinality(S) = Cardinality(V) - 1 /\ Connects(V, E, S)}

Occurrences(E, e) == Cardinality({i \in DOMAIN E : E[i] = e})

\* the set of a vertex, by its parent pointers
RECURSIVE Root(_, _)
Root(p, v) == IF p[v] = v THEN v ELSE Root(p, p[v])

ConnectedInput == Connects(Range(vertices), edges, DOMAIN edges)

\* what kruskal_mst returns for a connected graph
C13_ReturnsMinimumTree ==
    (mst_pc = "done" /\ ConnectedInput) =>
        /\ Len(mst_edges) = Len(vertices) - 1
        /\ \A e \in Range(mst_edges) : Occurrences(mst_edges, e) <= Occurrences(edges, e)
        /\ Forest(Range(vertices), mst_edges, DOMAIN mst_edges)
        /\ Connects(Range(vertices), mst_edges, DOMAIN mst_edges)
        /\ \A S \in SpanningTrees(Range(vertices), edges) : total_weight <= Weight(edges, S)
        /\ total_weight = Weight(mst_edges, DOMAIN mst_edges)

\* while it runs: the accepted edges are in weight order, and two vertices are
\* in one union-find set exactly when accepted edges join them
C13_AcceptedSoFar ==
    mst_pc # "idle" =>
        /\ \A i \in DOMAIN mst_edges : \A j \in DOMAIN mst_edges :
              i < j => mst_edges[i][3] <= mst_edges[j][3]
        /\ \A u \in Range(vertices) : \A v \in Range(vertices) :
              (Root(parent, u) = Root(parent, v))
                  <=> (v \in Reach({u}, mst_edges, DOMAIN mst_edges))

\* an accepted edge is the edge the loop is at, and its endpoints were in
\* different sets
C13_AcceptStep ==
    Len(mst_edges') > Len(mst_edges) =>
        /\ mst_edges' = Append(mst_edges, sorted_edges[edge_index])
        /\ Root(parent, sorted_edges[edge_index][1]) # Root(parent, sorted_edges[edge_index][2])
        /\ \A k \in 1 .. edge_index - 1 :
              sorted_edges[k][3] <= sorted_edges[edge_index][3]

\* C13: for every connected weighted graph (edges, vertices), kruskal_mst
\* returns |vertices| - 1 of the input edges, acyclic and connecting every
\* vertex, of the least total weight of any spanning tree, with total_weight
\* the sum of their weights; edges are accepted in non-decreasing weight order,
\* and only when their endpoints were in different union-find sets.
C13_KruskalMst ==
    /\ [] C13_ReturnsMinimumTree
    /\ [] C13_AcceptedSoFar
    /\ [][C13_AcceptStep]_vars

\* the first example of the source: edges rejected for closing a cycle, and
\* the loop left before the last edge
C13_Witness ==
    /\ mst_pc = "done" /\ ConnectedInput
    /\ Len(vertices) = 9 /\ Len(edges) = 14
    /\ Len(mst_edges) = 8 /\ total_weight = 37
    /\ edge_index < Len(sorted_edges)
    /\ edge_index > Len(mst_edges)

--------------------------------------------------------------------------
\* The move count the search is at: the marked activations of backtrack (all
\* N*N of them once the tour has closed and the activations return True), the
\* move_count of the walk.
MoveCountNow ==
    IF solver = "KnightsTourLasVegas" THEN move_count
    ELSE IF ret = "true" THEN N * N
    ELSE Cardinality({d \in 1 .. Len(stack) : stack[d].at # "mark"})

\* The non-zero cells of b hold 1 .. m, each once, and every marked cell but
\* the first is a knight move from the cell holding the number before.
KnightPath(b, m) ==
    /\ \A c \in DOMAIN b : b[c] \in 0 .. m
    /\ Cardinality({c \in DOMAIN b : b[c] # 0}) = m
    /\ {b[c] : c \in DOMAIN b} \ {0} = 1 .. m
    /\ \A c \in DOMAIN b :
          b[c] > 1 =>
              \E k \in 1 .. Len(KNIGHT_MOVES) :
                  LET q == <<c[1] + KNIGHT_MOVES[k][1], c[2] + KNIGHT_MOVES[k][2]>>
                  IN  q \in DOMAIN b /\ b[q] = b[c] - 1

\* C14: in every state of either solver's search, after each mark and each
\* unmark, the non-zero cells of the board hold exactly 1 .. m for the current
\* move count m, each once, the cell holding 1 is the start square, and the
\* cells holding k and k+1 are one knight offset apart: the marked cells are
\* one self-avoiding knight path from the start.
C14_MarkedCellsArePath ==
    (pc \in {"search", "walk"} /\ OnBoard(start, N)) =>
        /\ KnightPath(board, MoveCountNow)
        /\ MoveCountNow >= 1 => board[start] = 1
        /\ \A d \in 1 .. Len(stack) :
              stack[d].at # "mark" => board[stack[d].pos] = d

\* deep in a search of the standard board, after squares have been unmarked
C14_Witness ==
    /\ pc = "search" /\ ret = "none" /\ solver = "knights_tour"
    /\ N = BOARD_SIZE /\ start = <<0, 0>>
    /\ writes > entered /\ MoveCountNow > 32
    /\ Top.at = "check"

--------------------------------------------------------------------------
\* An activation of backtrack returns False: the innermost activation is gone
\* in the next state and nothing reports success.
ReturnsFalse ==
    /\ pc = "search" /\ ret = "none" /\ stack # <<>>
    /\ Len(stack') = Len(stack) - 1
    /\ ret' # "true"

\* The board each activation was entered with is the board its caller was
\* entered with plus the caller's own mark.
EntryBoards ==
    pc = "search" =>
        \A d \in 2 .. Len(stack) :
            stack[d].entry = [stack[d - 1].entry EXCEPT ![stack[d - 1].pos] = d - 1]

\* the activation's own square is empty again and every marked square is an
\* ancestor's, holding the ancestor's move number
OnlyAncestorsMarked ==
    /\ board'[stack[Len(stack)].pos] = 0
    /\ \A c \in DOMAIN board' :
          board'[c] # 0 =>
              \E d \in 1 .. Len(stack) - 1 : stack[d].pos = c /\ board'[c] = d

\* C15: every activation of backtrack that returns failure leaves the board
\* cell for cell as it was when the activation was entered: its own cell and
\* the cells of its descendants are 0 again and no cell of an ancestor has
\* changed, on the full-board exit without a closing move and on the exit after
\* the last candidate failed.
C15_FailureRestoresBoard ==
    /\ [] EntryBoards
    /\ [][ReturnsFalse =>
            /\ board' = stack[Len(stack)].entry
            /\ OnlyAncestorsMarked
            /\ \/ stack[Len(stack)].move_count = N * N
               \/ stack[Len(stack)].at = "loop"
                    /\ stack[Len(stack)].i > Len(stack[Len(stack)].valid_moves)]_vars

\* back in the caller's loop on the standard board after the callee filled
\* the last square, found no closing move and returned failure: the board is
\* the callee's entry board again
C15_Witness ==
    /\ pc = "search" /\ ret = "none" /\ solver = "KnightsTourBacktracking"
    /\ N = BOARD_SIZE /\ stack # <<>>
    /\ Top.at = "loop" /\ Top.i > 1
    /\ Top.move_count = N * N - 1
    /\ board = [Top.entry EXCEPT ![Top.pos] = Top.move_count]

--------------------------------------------------------------------------
\* The candidates of an activation, as the claim describes them, on the board
\* with the activation's own square marked.
MarkedEntry(f) == [f.entry EXCEPT ![f.pos] = f.move_count]

Onward(q, b) == Cardinality(LegalOffsets(q, b, N))

\* the place in the move table of the offset that leads from p to q
OffsetOf(p, q) ==
    CHOOSE k \in 1 .. Len(KNIGHT_MOVES) :
        q = <<p[1] + KNIGHT_MOVES[k][1], p[2] + KNIGHT_MOVES[k][2]>>

\* the list of the innermost activation holds the legal candidates, fewest
\* onward moves first and equal counts in table order, and the activation
\* called from a list is at the candidate the list's index points to
C16_WarnsdorffOrder ==
    (pc = "search" /\ stack # <<>> /\ stack[Len(stack)].at = "loop") =>
        LET f == stack[Len(stack)]
            b == MarkedEntry(f)
            l == f.valid_moves
        IN  /\ ret = "none" => board = b
            /\ Len(l) = Onward(f.pos, b)
            /\ {l[i] : i \in 1 .. Len(l)}
                 = {<<f.pos[1] + KNIGHT_MOVES[k][1], f.pos[2] + KNIGHT_MOVES[k][2]>> :
                       k \in LegalOffsets(f.pos, b, N)}
            /\ \A i \in 1 .. Len(l) : \A j \in 1 .. Len(l) :
                  i < j =>
                      \/ Onward(l[i], b) < Onward(l[j], b)
                      \/ /\ Onward(l[i], b) = Onward(l[j], b)
                         /\ OffsetOf(f.pos, l[i]) < OffsetOf(f.pos, l[j])
            /\ f.i \in 1 .. Len(l) + 1

C16_CalleeIsCandidate ==
    pc = "search" =>
        \A d \in 1 .. Len(stack) - 1 :
            /\ stack[d].at = "loop"
            /\ stack[d].i <= Len(stack[d].valid_moves)
            /\ stack[d + 1].pos = stack[d].valid_moves[stack[d].i]

\* a list is never reordered, and its index moves on by one, when the callee
\* has returned failure
C16_InOrder ==
    pc = "search" =>
        \A d \in 1 .. Len(stack) :
            (d <= Len(stack') /\ stack[d].at = "loop") =>
                /\ stack'[d].valid_moves = stack[d].valid_moves
                /\ \/ stack'[d].i = stack[d].i
                   \/ /\ stack'[d].i = stack[d].i + 1
                      /\ d = Len(stack) - 1
                      /\ ReturnsFalse

\* after a success nothing is tried: no activation begins, no cell changes,
\* and the activations return one by one
C16_StopsAtSuccess ==
    (pc = "search" /\ ret = "true") =>
        /\ board' = board
        /\ entered' = entered
        /\ ret' = "true"
        /\ \/ stack # <<>> /\ stack' = SubSeq(stack, 1, Len(stack) - 1)
           \/ stack = <<>> /\ pc' = "done" /\ success'

\* C16: at every step of the backtracking search the legal candidates are
\* tried in ascending order of their number of legal onward moves, counted on
\* the board with the current square marked, equal counts in move-table order;
\* the search stops at the first candidate whose recursion succeeds and tries
\* no later one.
C16_TriedInWarnsdorffOrder ==
    /\ [] C16_WarnsdorffOrder
    /\ [] C16_CalleeIsCandidate
    /\ [][C16_InOrder]_vars
    /\ [][C16_StopsAtSuccess]_vars

\* on the standard board: a list with a tie and with different counts, its
\* first candidate failed and a later one being tried
C16_Witness ==
    /\ pc = "search" /\ ret = "none" /\ solver = "KnightsTourBacktracking"
    /\ N = BOARD_SIZE /\ stack # <<>>
    /\ Top.at = "loop" /\ Top.i = 2 /\ Len(Top.valid_moves) >= 3
    /\ Onward(Top.valid_moves[1], board) = Onward(Top.valid_moves[2], board)
    /\ Onward(Top.valid_moves[2], board) < Onward(Top.valid_moves[3], board)

--------------------------------------------------------------------------
\* The two backtracking implementations, one called after the other in one
\* process with the same start.
OtherImplementation ==
    /\ Returned /\ calls >= 1
    /\ solver \in BtSolvers /\ first.solver \in BtSolvers
    /\ solver # first.solver
    /\ first.start = start

\* in a search state, what each implementation computes where they differ in
\* code: the candidate list and the closed-tour check
SameStepEitherWay ==
    (pc = "search" /\ stack # <<>> /\ stack[Len(stack)].at = "check") =>
        /\ SortedMoves("knights_tour", stack[Len(stack)].pos, board, N)
             = SortedMoves("KnightsTourBacktracking", stack[Len(stack)].pos, board, N)
        /\ Closes("knights_tour", start, stack[Len(stack)].pos)
             = Closes("KnightsTourBacktracking", start, stack[Len(stack)].pos)

\* C17: the two backtracking implementations are observationally equivalent:
\* for every start, on the board or not, knights_tour(row, col) and
\* KnightsTourBacktracking((row, col)) make the same board marks and unmarks in
\* the same order and return the same success value and equal boards, although
\* their closed-tour checks take (current, start) and (start, current).
C17_SameSearch ==
    /\ OtherImplementation =>
          /\ first.trace = trace
          /\ first.success = success
          /\ first.board = board
    /\ SameStepEitherWay

\* knights_tour first and KnightsTourBacktracking after it, from the corner of
\* the standard board: the same marks and unmarks, the same tour
C17_Witness ==
    /\ OtherImplementation /\ N = BOARD_SIZE /\ start = <<0, 0>>
    /\ first.solver = "knights_tour" /\ solver = "KnightsTourBacktracking"
    /\ success /\ first.success
    /\ Len(trace) > N * N /\ first.trace = trace /\ first.board = board

==========================================================================
